---- MODULE Spec2Model ----
(***************************************************************************)
(* Model of the collaborative project-management backend (src/main.py).   *)
(*                                                                         *)
(* The state is the four MongoDB collections the handlers write (user,    *)
(* project, chatmessage, collaborationrequest), the ObjectId generator of  *)
(* each collection, the last HTTP response, and, for the two handlers      *)
(* whose check-then-act store calls are studied under interleaving         *)
(* (create_or_login_user, request_collab), the calls that are in flight.   *)
(*                                                                         *)
(* Documents keep the fields the handlers branch on or that the checked    *)
(* properties read (_id, email, username, createdBy, members, projectId,   *)
(* senderUserId, senderId, status).  Timestamps and the free-text fields   *)
(* (title, description, tags, ...) are written but never read by a         *)
(* handler that writes, and are left out.                                  *)
(***************************************************************************)
EXTENDS Integers, Sequences, FiniteSets, TLC

VARIABLES user, project, chatmessage, collaborationrequest,
          lastId, response, loginCall, requestCall

vars == <<user, project, chatmessage, collaborationrequest,
          lastId, response, loginCall, requestCall>>

userVars == <<user, loginCall>>
collabVars == <<project, chatmessage, collaborationrequest, requestCall>>

----------------------------------------------------------------------------
(* Bounds: how many user documents insert_one may create, and how many     *)
(* project, chat-message and collaboration-request documents together.     *)
MaxUsers == 2
MaxInserts == 3

(* Input domains. *)
Clients == {"c1", "c2"}
Emails == {"a@x.io", "b@x.io"}
Usernames == {"ann", "bob"}
UserIdStrings == {"u1", "u2"}
Owners == {"u1"}
Senders == {"u2"}
MemberLists == {<<>>, <<"u2">>, <<"u2", "u2">>}
Contents == {"Let's build it.", "What should we build?"}
Decisions == {"accepted", "rejected", "invalid-value"}
Malformed == "zz"

MaxOf(a, b) == IF a >= b THEN a ELSE b
ObjectIds == 1 .. MaxOf(MaxUsers, MaxInserts)

(* str(ObjectId): the string form of an identifier. *)
StrTable == [n \in ObjectIds |-> ToString(n)]
str(n) == StrTable[n]

ProjectIdStrings == {str(n) : n \in 1 .. MaxInserts} \cup {Malformed}
(* The project ids that chat posts and collaboration requests are sent to: *)
(* the first generated id and a malformed one (neither handler parses or   *)
(* looks up the id, so both are accepted whether or not a project exists). *)
TargetIdStrings == {str(1), Malformed}
RequestIdStrings == {str(n) : n \in 1 .. MaxInserts} \cup {Malformed}
UserDocIdStrings == {str(n) : n \in 1 .. MaxUsers} \cup {Malformed}

InvalidId == 0

(* oid: parses an identifier string; InvalidId stands for the HTTP 400 the *)
(* handler raises when the text is no well-formed ObjectId.                *)
OidTable ==
    [id_str \in {str(n) : n \in ObjectIds} \cup {Malformed} |->
        IF \E n \in ObjectIds : str(n) = id_str
        THEN CHOOSE n \in ObjectIds : str(n) = id_str
        ELSE InvalidId]
oid(id_str) == OidTable[id_str]

Idle == [pc |-> "idle"]

NoBody == "-"
Resp(code, body) == [code |-> code, body |-> body]

Range(s) == {s[i] : i \in 1 .. Len(s)}
Count(s, x) == Cardinality({i \in 1 .. Len(s) : s[i] = x})

(* Python truthiness of an Optional[str]: None and "" are both falsy; the  *)
(* omitted query parameter is modelled by "".                              *)
Truthy(s) == s # ""

----------------------------------------------------------------------------
(* Store primitives. *)

(* insert_one calls made so far on the three project-side collections. *)
Inserted == lastId.project + lastId.chatmessage + lastId.collaborationrequest

(* find_one({"_id": id}) as a set of at most one document. *)
ById(coll, id) == {d \in coll : d._id = id}

First(docs) == CHOOSE d \in docs : \A e \in docs : d._id <= e._id

(* Variant of AddToSet with $push semantics: appends unconditionally. *)
AddToSet_Push(list, x) == Append(list, x)

(* $addToSet on an array field. *)
AddToSet(list, x) == IF x \in Range(list) THEN list ELSE Append(list, x)

(* $pull on an array field: removes every occurrence. *)
Pull(list, x) == SelectSeq(list, LAMBDA y : y # x)

Init ==
    /\ user = {}
    /\ project = {}
    /\ chatmessage = {}
    /\ collaborationrequest = {}
    /\ lastId = [user |-> 0, project |-> 0, chatmessage |-> 0, collaborationrequest |-> 0]
    /\ response = Resp(200, NoBody)
    /\ loginCall = [c \in Clients |-> Idle]
    /\ requestCall = [c \in Clients |-> Idle]

----------------------------------------------------------------------------
(* Users: POST /api/users (create_or_login_user) and PUT /api/users/{id}.  *)
(* create_or_login_user is three store calls, find_one by email, then      *)
(* update_one or insert_one; each is one step of the calling client, so    *)
(* that calls of different clients interleave between the store calls.     *)

UsersInFlight == Cardinality({c \in Clients : loginCall[c].pc = "insert"})

(* find_one({"email": user.email}) and the branch on its result. *)
create_or_login_user_find(c, email, username) ==
    /\ UNCHANGED <<user, lastId, response, collabVars>>
    /\ loginCall[c] = Idle
    /\ LET existing == {u \in user : u.email = email} IN
       IF existing # {}
       THEN loginCall' = [loginCall EXCEPT ![c] =
                [pc |-> "update", _id |-> First(existing)._id, username |-> username]]
       ELSE /\ lastId.user + UsersInFlight < MaxUsers
            /\ loginCall' = [loginCall EXCEPT ![c] =
                [pc |-> "insert", email |-> email, username |-> username]]

(* update_one({"_id": existing["_id"]}, {"$set": ...}): email is not set. *)
create_or_login_user_update(c) ==
    /\ UNCHANGED <<lastId, collabVars>>
    /\ loginCall[c].pc = "update"
    /\ LET call == loginCall[c] IN
       /\ user' = {IF u._id = call._id THEN [u EXCEPT !.username = call.username] ELSE u
                     : u \in user}
       /\ response' = Resp(200, str(call._id))
    /\ loginCall' = [loginCall EXCEPT ![c] = Idle]

(* insert_one(data) of a new user document. *)
create_or_login_user_insert(c) ==
    /\ UNCHANGED collabVars
    /\ loginCall[c].pc = "insert"
    /\ LET call == loginCall[c]
           new_id == lastId.user + 1 IN
       /\ user' = user \cup {[_id |-> new_id, email |-> call.email, username |-> call.username]}
       /\ lastId' = [lastId EXCEPT !.user = new_id]
       /\ response' = Resp(200, str(new_id))
    /\ loginCall' = [loginCall EXCEPT ![c] = Idle]

(* update_user: $set of the whole payload, email included. *)
update_user(user_id, email, username) ==
    /\ UNCHANGED <<lastId, loginCall, collabVars>>
    /\ IF oid(user_id) = InvalidId
       THEN /\ response' = Resp(400, "Invalid id format")
            /\ UNCHANGED user
       ELSE IF ById(user, oid(user_id)) = {}
       THEN /\ response' = Resp(404, "User not found")
            /\ UNCHANGED user
       ELSE /\ user' = {IF u._id = oid(user_id)
                         THEN [u EXCEPT !.email = email, !.username = username]
                         ELSE u : u \in user}
            /\ response' = Resp(200, user_id)

UserNext ==
    \/ \E c \in Clients, email \in Emails, username \in Usernames :
          create_or_login_user_find(c, email, username)
    \/ \E c \in Clients : create_or_login_user_update(c)
    \/ \E c \in Clients : create_or_login_user_insert(c)
    \/ \E user_id \in UserDocIdStrings, email \in Emails, username \in Usernames :
          update_user(user_id, email, username)

UserSpec == Init /\ [][UserNext]_vars

----------------------------------------------------------------------------
(* Projects.  Each handler is its HTTP response, a function of the         *)
(* arguments and the collections as the call finds them, and its writes.   *)

(* create_project: the owner is appended to members when missing; the      *)
(* members list is otherwise stored as given.                              *)
MembersWithOwner(createdBy, members) ==
    IF Truthy(createdBy) /\ createdBy \notin Range(members)
    THEN Append(members, createdBy)
    ELSE members

create_project(createdBy, members) ==
    /\ Inserted < MaxInserts
    /\ response' = Resp(200, "created")
    /\ UNCHANGED <<chatmessage, collaborationrequest, requestCall, userVars>>
    /\ LET new_id == lastId.project + 1 IN
       /\ lastId' = [lastId EXCEPT !.project = new_id]
       /\ project' = project \cup {[_id |-> new_id, createdBy |-> createdBy,
                                    members |-> MembersWithOwner(createdBy, members)]}

(* The lookup every project handler starts with: oid(project_id), then     *)
(* find_one (or update_one's matched_count).                               *)
ProjectLookupError(project_id) ==
    IF oid(project_id) = InvalidId THEN Resp(400, "Invalid id format")
    ELSE IF ById(project, oid(project_id)) = {} THEN Resp(404, "Project not found")
    ELSE Resp(200, NoBody)

(* update_project: $set of the whole payload, createdBy and members included. *)
update_project(project_id, createdBy, members) ==
    /\ response' = IF ProjectLookupError(project_id).code # 200
                   THEN ProjectLookupError(project_id)
                   ELSE Resp(200, "updated")
    /\ UNCHANGED <<chatmessage, collaborationrequest, lastId, requestCall, userVars>>
    /\ IF ProjectLookupError(project_id).code # 200
       THEN UNCHANGED project
       ELSE project' = {IF p._id = oid(project_id)
                        THEN [p EXCEPT !.createdBy = createdBy, !.members = members]
                        ELSE p : p \in project}

(* Variant of NotOwner that never refuses. *)
NotOwner_Unchecked(pr, userId) == FALSE

(* The ownership check of delete_project. *)
NotOwner(pr, userId) == Truthy(userId) /\ pr.createdBy # userId

(* Variant of DeleteMany whose filter matches no document (a filter on the *)
(* ObjectId instead of its string form).                                   *)
DeleteMany_NoMatch(coll, project_id) == coll

(* delete_many({"projectId": project_id}). *)
DeleteMany(coll, project_id) == {d \in coll : d.projectId # project_id}

delete_project_response(project_id, userId) ==
    IF ProjectLookupError(project_id).code # 200 THEN ProjectLookupError(project_id)
    ELSE IF NotOwner(First(ById(project, oid(project_id))), userId)
    THEN Resp(403, "Only owner can delete")
    ELSE Resp(200, "deleted")

delete_project(project_id, userId) ==
    /\ response' = delete_project_response(project_id, userId)
    /\ UNCHANGED <<lastId, requestCall, userVars>>
    /\ IF delete_project_response(project_id, userId).code # 200
       THEN UNCHANGED <<project, chatmessage, collaborationrequest>>
       ELSE /\ project' = project \ ById(project, oid(project_id))
            /\ chatmessage' = DeleteMany(chatmessage, project_id)
            /\ collaborationrequest' = DeleteMany(collaborationrequest, project_id)

join_project(project_id, userId) ==
    /\ response' = IF ProjectLookupError(project_id).code # 200
                   THEN ProjectLookupError(project_id)
                   ELSE Resp(200, "joined")
    /\ UNCHANGED <<chatmessage, collaborationrequest, lastId, requestCall, userVars>>
    /\ IF ProjectLookupError(project_id).code # 200
       THEN UNCHANGED project
       ELSE LET pr == First(ById(project, oid(project_id))) IN
            IF userId \in Range(pr.members)
            THEN UNCHANGED project
            ELSE project' = {IF p._id = pr._id
                             THEN [p EXCEPT !.members = AddToSet(p.members, userId)]
                             ELSE p : p \in project}

leave_project(project_id, userId) ==
    /\ response' = IF ProjectLookupError(project_id).code # 200
                   THEN ProjectLookupError(project_id)
                   ELSE Resp(200, "left")
    /\ UNCHANGED <<chatmessage, collaborationrequest, lastId, requestCall, userVars>>
    /\ IF ProjectLookupError(project_id).code # 200
       THEN UNCHANGED project
       ELSE project' = {IF p._id = oid(project_id)
                        THEN [p EXCEPT !.members = Pull(p.members, userId)]
                        ELSE p : p \in project}

----------------------------------------------------------------------------
(* Chat. *)

BotSender == "sim-bot"

(* msg.content.strip().endswith("?") on the modelled contents. *)
EndsWithQuestion(content) == content = "What should we build?"

(* post_chat: the project id is not parsed or looked up. *)
post_chat(project_id, senderId, content) ==
    /\ Inserted + (IF EndsWithQuestion(content) THEN 2 ELSE 1) <= MaxInserts
    /\ response' = Resp(200, "posted")
    /\ UNCHANGED <<project, collaborationrequest, requestCall, userVars>>
    /\ LET new_id == lastId.chatmessage + 1
           posted == [_id |-> new_id, projectId |-> project_id, senderId |-> senderId]
           bot == [_id |-> new_id + 1, projectId |-> project_id, senderId |-> BotSender] IN
       IF EndsWithQuestion(content)
       THEN /\ chatmessage' = chatmessage \cup {posted, bot}
            /\ lastId' = [lastId EXCEPT !.chatmessage = new_id + 1]
       ELSE /\ chatmessage' = chatmessage \cup {posted}
            /\ lastId' = [lastId EXCEPT !.chatmessage = new_id]

----------------------------------------------------------------------------
(* Collaboration requests. *)

(* Variant of FindPending whose filter leaves out the status. *)
FindPending_AnyStatus(coll, project_id, senderUserId) ==
    {r \in coll : r.projectId = project_id /\ r.senderUserId = senderUserId}

(* find_one({"projectId": ..., "senderUserId": ..., "status": "pending"}). *)
FindPending(coll, project_id, senderUserId) ==
    {r \in coll : /\ r.projectId = project_id
                  /\ r.senderUserId = senderUserId
                  /\ r.status = "pending"}

NewRequest(new_id, project_id, senderUserId) ==
    [_id |-> new_id, projectId |-> project_id, senderUserId |-> senderUserId,
     status |-> "pending"]

(* request_collab run without interruption. *)
request_collab(project_id, senderUserId) ==
    /\ UNCHANGED <<project, chatmessage, requestCall, userVars>>
    /\ LET existing == FindPending(collaborationrequest, project_id, senderUserId)
           new_id == lastId.collaborationrequest + 1 IN
       IF existing # {}
       THEN /\ response' = Resp(200, str(First(existing)._id))
            /\ UNCHANGED <<collaborationrequest, lastId>>
       ELSE /\ Inserted < MaxInserts
            /\ response' = Resp(200, str(new_id))
            /\ lastId' = [lastId EXCEPT !.collaborationrequest = new_id]
            /\ collaborationrequest' = collaborationrequest
                                         \cup {NewRequest(new_id, project_id, senderUserId)}

RequestsInFlight == Cardinality({c \in Clients : requestCall[c].pc = "insert"})

(* request_collab, first store call: find_one and the early return. *)
request_collab_find(c, project_id, senderUserId) ==
    /\ requestCall[c] = Idle
    /\ UNCHANGED <<project, chatmessage, collaborationrequest, lastId, userVars>>
    /\ LET existing == FindPending(collaborationrequest, project_id, senderUserId) IN
       IF existing # {}
       THEN /\ response' = Resp(200, str(First(existing)._id))
            /\ UNCHANGED requestCall
       ELSE /\ Inserted + RequestsInFlight < MaxInserts
            /\ requestCall' = [requestCall EXCEPT ![c] =
                 [pc |-> "insert", project_id |-> project_id, senderUserId |-> senderUserId]]
            /\ UNCHANGED response

(* request_collab, second store call: insert_one. *)
request_collab_insert(c) ==
    /\ requestCall[c].pc = "insert"
    /\ UNCHANGED <<project, chatmessage, userVars>>
    /\ LET call == requestCall[c]
           new_id == lastId.collaborationrequest + 1 IN
       /\ response' = Resp(200, str(new_id))
       /\ lastId' = [lastId EXCEPT !.collaborationrequest = new_id]
       /\ collaborationrequest' = collaborationrequest
                                    \cup {NewRequest(new_id, call.project_id, call.senderUserId)}
    /\ requestCall' = [requestCall EXCEPT ![c] = Idle]

(* Variant of ValidDecision that accepts every decision. *)
ValidDecision_Any(decision) == TRUE

ValidDecision(decision) == decision \in {"accepted", "rejected"}

(* update_one({"_id": req["_id"]}, {"$set": {"status": decision}}). *)
SetStatus(coll, id, decision) ==
    {IF r._id = id THEN [r EXCEPT !.status = decision] ELSE r : r \in coll}

(* Variant of AddMember with upsert semantics: a filter that matches no    *)
(* document inserts one.                                                   *)
AddMember_Upsert(coll, id, userId) ==
    IF \E p \in coll : p._id = id
    THEN {IF p._id = id THEN [p EXCEPT !.members = AddToSet(p.members, userId)] ELSE p
            : p \in coll}
    ELSE coll \cup {[_id |-> id, createdBy |-> userId, members |-> <<userId>>]}

(* update_one({"_id": id}, {"$addToSet": {"members": userId}}): a filter   *)
(* that matches no document updates nothing and raises nothing.            *)
AddMember(coll, id, userId) ==
    {IF p._id = id THEN [p EXCEPT !.members = AddToSet(p.members, userId)] ELSE p
       : p \in coll}

(* The checks respond_request makes before its first write. *)
RespondRejected(request_id, decision) ==
    IF oid(request_id) = InvalidId THEN Resp(400, "Invalid id format")
    ELSE IF ById(collaborationrequest, oid(request_id)) = {} THEN Resp(404, "Request not found")
    ELSE IF ~ValidDecision(decision) THEN Resp(400, "Invalid decision")
    ELSE Resp(200, NoBody)

(* After the status write, oid(req["projectId"]) raises 400 on a malformed *)
(* project id; otherwise the handler returns {"status": decision}.         *)
respond_request_response(request_id, decision) ==
    IF RespondRejected(request_id, decision).code # 200
    THEN RespondRejected(request_id, decision)
    ELSE IF /\ decision = "accepted"
            /\ oid(First(ById(collaborationrequest, oid(request_id))).projectId) = InvalidId
    THEN Resp(400, "Invalid id format")
    ELSE Resp(200, decision)

respond_request(request_id, decision) ==
    /\ response' = respond_request_response(request_id, decision)
    /\ UNCHANGED <<chatmessage, lastId, requestCall, userVars>>
    /\ IF RespondRejected(request_id, decision).code # 200
       THEN UNCHANGED <<collaborationrequest, project>>
       ELSE LET req == First(ById(collaborationrequest, oid(request_id))) IN
            /\ collaborationrequest' = SetStatus(collaborationrequest, req._id, decision)
            /\ IF decision = "accepted" /\ oid(req.projectId) # InvalidId
               THEN project' = AddMember(project, oid(req.projectId), req.senderUserId)
               ELSE UNCHANGED project

----------------------------------------------------------------------------
(* Every handler that writes project, chatmessage or collaborationrequest, *)
(* each call run to completion before the next starts.  No handler reads   *)
(* or writes the user collection here, and no user handler touches these   *)
(* collections, so the user collection stays out of this specification.    *)
Next ==
    \/ \E createdBy \in Owners, members \in MemberLists :
          create_project(createdBy, members)
    \/ \E project_id \in ProjectIdStrings, createdBy \in Owners, members \in MemberLists :
          update_project(project_id, createdBy, members)
    \/ \E project_id \in ProjectIdStrings, userId \in UserIdStrings \cup {""} :
          delete_project(project_id, userId)
    \/ \E project_id \in ProjectIdStrings, userId \in UserIdStrings :
          join_project(project_id, userId)
    \/ \E project_id \in ProjectIdStrings, userId \in UserIdStrings :
          leave_project(project_id, userId)
    \/ \E project_id \in TargetIdStrings, content \in Contents :
          post_chat(project_id, "u1", content)
    \/ \E project_id \in TargetIdStrings, senderUserId \in Senders :
          request_collab(project_id, senderUserId)
    \/ \E request_id \in RequestIdStrings, decision \in Decisions :
          respond_request(request_id, decision)

Spec == Init /\ [][Next]_vars

(* The handlers that write collaborationrequest, with request_collab's two *)
(* store calls as separate steps of concurrent clients.                    *)
RaceNext ==
    \/ \E createdBy \in Owners, members \in MemberLists :
          create_project(createdBy, members)
    \/ \E project_id \in ProjectIdStrings, userId \in UserIdStrings \cup {""} :
          delete_project(project_id, userId)
    \/ \E c \in Clients, project_id \in TargetIdStrings, senderUserId \in Senders :
          request_collab_find(c, project_id, senderUserId)
    \/ \E c \in Clients : request_collab_insert(c)
    \/ \E request_id \in RequestIdStrings, decision \in Decisions :
          respond_request(request_id, decision)

RaceSpec == Init /\ [][RaceNext]_vars

----------------------------------------------------------------------------
(* Properties. *)

IsStored(coll, id_str) == \E d \in coll : str(d._id) = id_str
TheDoc(coll, id_str) == CHOOSE d \in coll : str(d._id) = id_str
PendingFor(coll, project_id, senderUserId) ==
    {r \in coll : r.projectId = project_id /\ r.senderUserId = senderUserId
                  /\ r.status = "pending"}
Resolved == {"accepted", "rejected"}

(* C1: for every (projectId, senderUserId) pair at most one stored request *)
(* is pending, also when request_collab calls of several clients           *)
(* interleave between find_one and insert_one.                             *)
C1_OnePendingPerPair ==
    \A r1, r2 \in collaborationrequest :
        (/\ r1.projectId = r2.projectId
         /\ r1.senderUserId = r2.senderUserId
         /\ r1.status = "pending"
         /\ r2.status = "pending") => r1._id = r2._id

(* C2: a request's status only changes from pending to accepted or         *)
(* rejected; once accepted or rejected it never changes again.             *)
C2_StatusTerminal ==
    [][\A r \in collaborationrequest : \A t \in collaborationrequest' :
          (r._id = t._id /\ r.status # t.status)
             => (r.status = "pending" /\ t.status \in Resolved)]_vars

(* C3: every stored project has its createdBy among its members.           *)
C3_OwnerIsMember ==
    \A p \in project : p.createdBy \in Range(p.members)

(* C4: no two stored users have the same email.                            *)
C4_EmailUnique ==
    \A a, b \in user : a.email = b.email => a._id = b._id

(* C5: a delete_project(id) that answers 200 leaves no project with that   *)
(* id and no chat message or collaboration request whose projectId is id,  *)
(* and leaves every other document as it was; on a well-formed id with no  *)
(* stored project it answers 404 and changes no collection.                *)
C5_DeleteCascade ==
    [][\A project_id \in ProjectIdStrings, userId \in UserIdStrings \cup {""} :
          /\ (delete_project(project_id, userId) /\ response'.code = 200) =>
                 /\ IsStored(project, project_id)
                 /\ project' = {p \in project : str(p._id) # project_id}
                 /\ chatmessage' = {m \in chatmessage : m.projectId # project_id}
                 /\ collaborationrequest'
                      = {r \in collaborationrequest : r.projectId # project_id}
          /\ (/\ project_id # Malformed
              /\ ~IsStored(project, project_id)
              /\ delete_project(project_id, userId)) =>
                 /\ response' = Resp(404, "Project not found")
                 /\ UNCHANGED <<project, chatmessage, collaborationrequest>>]_vars

(* A delete of project 1 has answered 200: the one chat message posted,    *)
(* which was on project 1, is gone, and the one request made, which is on  *)
(* another project id, is still stored.                                    *)
C5_Witness ==
    /\ response = Resp(200, "deleted")
    /\ lastId.project = 1 /\ project = {}
    /\ lastId.chatmessage = 1 /\ chatmessage = {}
    /\ lastId.collaborationrequest = 1
    /\ \E r \in collaborationrequest : r.projectId # str(1)

(* C6: respond_request on a stored request with a decision other than      *)
(* accepted or rejected answers 400 and changes neither any request nor    *)
(* any project's members.                                                  *)
C6_InvalidDecision ==
    [][\A request_id \in RequestIdStrings, decision \in Decisions :
          (/\ decision \notin Resolved
           /\ IsStored(collaborationrequest, request_id)
           /\ respond_request(request_id, decision))
            => /\ response' = Resp(400, "Invalid decision")
               /\ UNCHANGED <<collaborationrequest, project>>]_vars

(* An invalid decision has been answered 400 with a project and a pending *)
(* request stored.                                                         *)
C6_Witness ==
    /\ response = Resp(400, "Invalid decision")
    /\ \E r \in collaborationrequest : r.status = "pending"
    /\ project # {}

C8_RequestIdempotent ==
    [][\A project_id \in TargetIdStrings, senderUserId \in Senders :
          request_collab(project_id, senderUserId) =>
            LET pending == PendingFor(collaborationrequest, project_id, senderUserId) IN
            IF pending # {}
            THEN /\ \E r \in pending : pending = {r} /\ response' = Resp(200, str(r._id))
                 /\ UNCHANGED collaborationrequest
            ELSE \E n \in ObjectIds :
                   /\ \A r \in collaborationrequest : r._id # n
                   /\ collaborationrequest' = collaborationrequest \cup
                        {[_id |-> n, projectId |-> project_id,
                          senderUserId |-> senderUserId, status |-> "pending"]}
                   /\ response' = Resp(200, str(n))]_vars

(* A resolved request and a newer pending request of the same pair are     *)
(* stored, and the newer one is what the last call returned.               *)
C8_Witness ==
    \E r1, r2 \in collaborationrequest :
        /\ r1.projectId = r2.projectId /\ r1.senderUserId = r2.senderUserId
        /\ r1.status \in Resolved /\ r2.status = "pending"
        /\ r1._id < r2._id
        /\ response = Resp(200, str(r2._id))

(* C9: delete_project on a stored project with a requester other than its *)
(* createdBy answers 403 and changes no collection; with the requester     *)
(* omitted there is no ownership check and the project is deleted.         *)
C9_DeleteForbidden ==
    [][\A project_id \in ProjectIdStrings, userId \in UserIdStrings \cup {""} :
          (IsStored(project, project_id) /\ delete_project(project_id, userId)) =>
            LET pr == TheDoc(project, project_id) IN
            /\ (userId # "" /\ userId # pr.createdBy) =>
                 /\ response' = Resp(403, "Only owner can delete")
                 /\ UNCHANGED <<project, chatmessage, collaborationrequest>>
            /\ userId = "" =>
                 /\ response'.code = 200
                 /\ ~IsStored(project', project_id)]_vars

(* A delete has been answered 403 and the project, a chat message of it    *)
(* and a request on it are stored.                                         *)
C9_Witness ==
    /\ response = Resp(403, "Only owner can delete")
    /\ \E p \in project :
          /\ \E m \in chatmessage : m.projectId = str(p._id)
          /\ \E r \in collaborationrequest : r.projectId = str(p._id)

(* C10 as stated: respond_request(id, accepted) on a stored request whose  *)
(* project is not stored answers 404, with the status already accepted.    *)
C10_MissingProjectNotFound ==
    [][\A request_id \in RequestIdStrings :
          (/\ IsStored(collaborationrequest, request_id)
           /\ ~IsStored(project, TheDoc(collaborationrequest, request_id).projectId)
           /\ respond_request(request_id, "accepted"))
            => /\ response'.code = 404
               /\ TheDoc(collaborationrequest', request_id).status = "accepted"]_vars

(* C10 amended: respond_request(id, accepted) on a stored request whose    *)
(* project is not stored sets the status to accepted and changes no        *)
(* project; it answers 200 when the request's projectId is a well-formed   *)
(* identifier and 400 (invalid id format) when it is malformed, never 404. *)
C10_MissingProjectAccepted ==
    [][\A request_id \in RequestIdStrings :
          (/\ IsStored(collaborationrequest, request_id)
           /\ ~IsStored(project, TheDoc(collaborationrequest, request_id).projectId)
           /\ respond_request(request_id, "accepted"))
            => /\ TheDoc(collaborationrequest', request_id).status = "accepted"
               /\ UNCHANGED project
               /\ response' = IF TheDoc(collaborationrequest, request_id).projectId = Malformed
                              THEN Resp(400, "Invalid id format")
                              ELSE Resp(200, "accepted")]_vars

(* An accept has been answered 200 for a request on project id 1 while no  *)
(* project was ever created.                                               *)
C10_Witness ==
    /\ response = Resp(200, "accepted")
    /\ lastId.project = 0
    /\ \E r \in collaborationrequest : r.projectId = str(1) /\ r.status = "accepted"

====
